---- MODULE Spec2Model ----
(***************************************************************************)
(* DailyYoutubeDigest: configuration resolution (src/utils/config.py),     *)
(* budget-constrained tweet generation (src/services/openai_service.py)    *)
(* and the processing pipeline (src/main.py with src/utils/db.py,          *)
(* src/services/twitter_service.py, src/services/youtube_service.py).      *)
(***************************************************************************)
EXTENDS Integers, Sequences, FiniteSets, TLC

VARIABLES
    \* ---- load_config (src/utils/config.py) ----
    s3_object,        \* what the remote bucket holds / how the remote read ends
    config_file,      \* what the local file holds / how the local read ends
    cfg_pc,           \* position inside load_config
    cfg_config,       \* local variable `config` of load_config
    cfg_result,       \* value returned (or exception raised) by load_config
    \* ---- generate_tweet (src/services/openai_service.py) ----
    OPENAI_API_KEY,   \* module constant read from the environment (set / unset)
    tw_pc,            \* position inside generate_tweet
    tw_args,          \* arguments: max_length, len(video_id), len(channel_name)
    tw_response,      \* what the completion call will answer: a length or a failure
    tw_available,     \* local variable available_length
    tw_called,        \* whether client.chat.completions.create was invoked
    tw_content,       \* len(tweet_content)
    tw_body,          \* tweet_content after lines 160-161, character by character
    tw_result,        \* returned value: None or len(full_tweet)
    \* ---- generate_summary (src/services/openai_service.py) ----
    sm_pc,            \* position inside generate_summary
    sm_args,          \* arguments: transcript, style, max_length, include_timestamps,
                      \* video_title, channel_name (texts are given by their lengths)
    sm_prompt,        \* `prompt` as composed at line 66
    sm_sent,          \* `prompt` as handed to the completion call, None before
    sm_result,        \* returned value
    \* ---- src/services/youtube_service.py ----
    environ,          \* os.environ["YOUTUBE_API_KEY"] as it is now (None when unset)
    YOUTUBE_API_KEY,  \* module constant, read from the environment at import
    yt_pc,            \* position inside get_channel_videos / get_video_transcript
    yt_op,            \* which of the two functions is being called
    yt_build,         \* what googleapiclient's build will do: "ok" or "raise"
    yt_execute,       \* what search().list().execute() will answer
    yt_listing,       \* what YouTubeTranscriptApi.list_transcripts will answer
    yt_built,         \* developerKey the builder was invoked with, None if never
    youtube,          \* local `youtube`: the client or None
    yt_transcript,    \* local `transcript` of get_video_transcript
    yt_result,        \* value returned by the function called
    \* ---- get_processed_videos (src/utils/db.py) ----
    scan_pc,          \* position inside get_processed_videos
    scan_table,       \* what ensure_table_exists will return
    scan_pages,       \* what the successive table.scan calls will answer
    scan_page,        \* number of table.scan calls answered so far
    video_ids,        \* local `video_ids`
    scan_result,      \* value returned, None before the return
    \* ---- main / process_video (src/main.py) ----
    pc,               \* position inside main / process_video
    config,           \* global `config` of main.py
    processed_videos, \* set read once by get_processed_videos
    channel_idx,      \* index of the channel of the for loop at line 118
    videos,           \* result of get_channel_videos for that channel
    video_idx,        \* index of the video of the for loop at line 136
    video_id,         \* local of process_video
    transcript,       \* local of process_video
    summary,          \* local of process_video
    twitter_success,  \* local of process_video
    mark_result,      \* value returned by mark_video_as_processed
    db,               \* the DynamoDB table: video_id -> record
    outcome,          \* value returned by lambda_handler for the last run
    raised,           \* the exception main() raised in this run, None if none
    \* ---- observation of the calls made (history, not program state) ----
    discovered,       \* what discovery returned so far in this run: "nothing",
                      \* "only_processed" (ids of processed_videos only) or "some_new"
    calls,            \* per run: the kinds of call made (fetch, summ, post, mark)
    attempt,          \* per process_video invocation: number of calls of each kind
    queried,          \* per run: the channel indexes discovery was called for, in order
    fetched,          \* per channel: the ids get_video_transcript was called for, in order
    failed,           \* per run: some discovery, fetch, summary, post or write failed
    summarized,       \* over all runs: the ids a summary was generated for
    posted,           \* over all runs: the ids a tweet was posted for
    reads,            \* in this run: calls of get_processed_videos
    summaries,        \* in this run: summaries generated
    marks             \* in this run: calls of mark_video_as_processed

cfgvars  == <<s3_object, config_file, cfg_pc, cfg_config, cfg_result>>
twvars   == <<tw_pc, tw_args, tw_response, tw_available, tw_called, tw_content, tw_body,
              tw_result>>
mainvars == <<pc, config, processed_videos, channel_idx, videos,
              video_idx, video_id, transcript, summary, twitter_success, mark_result, db, outcome,
              raised, discovered, calls, attempt, queried, fetched, failed>>
auditvars == <<summarized, posted, reads, summaries, marks>>
ytvars   == <<environ, YOUTUBE_API_KEY, yt_pc, yt_op, yt_build, yt_execute, yt_listing,
              yt_built, youtube, yt_transcript, yt_result>>
smvars   == <<sm_pc, sm_args, sm_prompt, sm_sent, sm_result>>
scanvars == <<scan_pc, scan_table, scan_pages, scan_page, video_ids, scan_result>>
vars     == <<cfgvars, OPENAI_API_KEY, twvars, smvars, ytvars, scanvars, mainvars, auditvars>>

-----------------------------------------------------------------------------
(* Bounds of the model *)

MaxCfgChannels == 2     \* longest `channels` list among the candidate configurations
MaxNameLen     == 20    \* longest channel name given to generate_tweet
MaxBudget      == 104   \* largest small max_length given to generate_tweet
MaxRespLen     == 72    \* longest completion text answered to generate_tweet
MaxChannels    == 2     \* longest `channels` list of a run's configuration
NumIds         == 2     \* distinct video ids
MaxResults     == 2     \* longest list returned by one discovery call
MaxSegments    == 2     \* most segments of one fetched transcript
PromptMargin   == 260   \* how far below the prompt budget the transcripts begin
MaxPages       == 3     \* most pages one scan of the table is answered in

-----------------------------------------------------------------------------
(* JSON values as Python sees them after json.load: a tagged value.         *)
(* A string is the sequence of its words, so that `key in string` (a        *)
(* substring test) is decided by the words it is made of.                   *)

JNull     == [t |-> "null", v |-> <<>>]
JNum(n)   == [t |-> "num",  v |-> n]
JBool(b)  == [t |-> "bool", v |-> b]
JStr(s)   == [t |-> "str",  v |-> s]
JList(s)  == [t |-> "list", v |-> s]
JDict(d)  == [t |-> "dict", v |-> d]

None == JNull

\* Python truthiness: None, 0, False, "", [] and {} are falsy (a string is
\* given by its words, or as "text" by its length).
Truthy(x) ==
    CASE x.t = "null" -> FALSE
      [] x.t = "num"  -> x.v # 0
      [] x.t = "bool" -> x.v
      [] x.t = "str"  -> x.v # <<>>
      [] x.t = "text" -> x.v # 0
      [] x.t = "list" -> x.v # <<>>
      [] x.t = "dict" -> DOMAIN x.v # {}
      [] OTHER        -> FALSE

\* Python's `not x`
Not(x) == ~Truthy(x)

\* `key in x` is defined for str (substring), list (membership) and dict (key);
\* on None, a number or a bool it raises TypeError.
SupportsIn(x) == x.t \in {"str", "list", "dict"}

Contains(key, x) ==
    CASE x.t = "dict" -> key \in DOMAIN x.v
      [] x.t = "list" -> \E i \in DOMAIN x.v : x.v[i] = JStr(<<key>>)
      [] x.t = "str"  -> \E i \in DOMAIN x.v : x.v[i] = key
      [] OTHER        -> FALSE

\* dict.get(key, default)
Get(d, key, default) == IF key \in DOMAIN d.v THEN d.v[key] ELSE default

Raised(e) == [t |-> "raise", v |-> e]
IsRaised(x) == x.t = "raise"

-----------------------------------------------------------------------------
(* src/utils/config.py *)

required_keys == {"channels", "global_settings"}

required_global_settings ==
    {"default_summary_style", "default_summary_length", "default_include_timestamps"}

\* lines 118-126: one channel passes when it is a dict holding both keys
ChannelChecked(channel) ==
    /\ channel.t = "dict"
    /\ "channel_id" \in DOMAIN channel.v
    /\ "name" \in DOMAIN channel.v

\* validate_config: "True", "False", or the exception it raises
validate_config(c) ==
    IF ~Truthy(c) THEN "False"
    ELSE IF ~SupportsIn(c) THEN "TypeError"
    ELSE IF \E key \in required_keys : ~Contains(key, c) THEN "False"
    ELSE IF c.t # "dict" THEN "TypeError"
    ELSE LET channels == c.v["channels"]
             gs       == c.v["global_settings"]
         IN  IF channels.t # "list" \/ channels.v = <<>> THEN "False"
             ELSE IF \E i \in DOMAIN channels.v : ~ChannelChecked(channels.v[i])
                  THEN "False"
             ELSE IF ~SupportsIn(gs) THEN "TypeError"
             ELSE IF \E key \in required_global_settings : ~Contains(key, gs)
                  THEN "False"
             ELSE "True"

\* lines 164-184: the built-in default
DefaultConfig ==
    JDict([channels |-> JList(<<
               JDict([name               |-> JStr(<<"Example Channel">>),
                      channel_id         |-> JStr(<<"UC_x5XG1OV2P6uZZ5FSM9Ttw">>),
                      summary_style      |-> JStr(<<"concise">>),
                      summary_length     |-> JNum(500),
                      include_timestamps |-> JBool(TRUE),
                      post_to_twitter    |-> JBool(FALSE),
                      post_to_blog       |-> JBool(FALSE)]) >>),
           global_settings |->
               JDict([default_summary_style      |-> JStr(<<"concise">>),
                      default_summary_length     |-> JNum(500),
                      default_include_timestamps |-> JBool(TRUE),
                      max_videos_per_channel     |-> JNum(3),
                      days_to_look_back          |-> JNum(1),
                      openai_model               |-> JStr(<<"gpt-4-turbo">>)])])

\* How a read of the remote object can end without a value (lines 62-64, 77-87)
S3Failures == { [t |-> "unset",    v |-> <<>>],     \* S3_CONFIG_BUCKET not set
                [t |-> "error",    v |-> <<>>],     \* ClientError other than NoSuchKey
                [t |-> "nokey",    v |-> <<>>],     \* NoSuchKey
                [t |-> "badjson",  v |-> <<>>] }    \* json.loads raises

\* How a read of the local file can end without a value (lines 38-40, 47-52)
FileFailures == { [t |-> "missing", v |-> <<>>],
                  [t |-> "badjson", v |-> <<>>] }

\* load_config_from_s3: the parsed value, or None on any failure
load_config_from_s3(obj) == IF obj \in S3Failures THEN None ELSE obj

\* load_config_from_file: the parsed value, or None on any failure
load_config_from_file(file) == IF file \in FileFailures THEN None ELSE file

\* line 154: the local file is read only when the remote value is falsy
FallsBackAlways(c) == TRUE
FallsBackToFile(c) == ~Truthy(c)

\* lines 159-184: the candidate when valid, the default otherwise; an
\* exception of validate_config propagates
ReturnValidated(c) ==
    IF ~Truthy(c) THEN DefaultConfig
    ELSE LET ok == validate_config(c)
         IN  IF ok = "True" THEN c
             ELSE IF ok = "False" THEN DefaultConfig
             ELSE Raised(ok)

\* load_config as a function of what the two stores hold
load_config(obj, file) ==
    LET fromS3 == load_config_from_s3(obj)
    IN  ReturnValidated(IF FallsBackToFile(fromS3)
                        THEN load_config_from_file(file) ELSE fromS3)

(* The candidate contents of the two stores *)

SeqsUpTo(S, n) == UNION { [1..k -> S] : k \in 0..n }

CandidateChannel ==
    { JNum(5),
      JDict([channel_id |-> JStr(<<"UC1">>)]),
      JDict([channel_id |-> JStr(<<>>),      name |-> JStr(<<"A">>)]),
      JDict([channel_id |-> JStr(<<"UC1">>), name |-> JStr(<<"A">>)]) }

CandidateChannels ==
    { JNull, JStr(<<"UC1">>) } \cup { JList(s) : s \in SeqsUpTo(CandidateChannel, MaxCfgChannels) }

CandidateGlobalSettings ==
    { JNull,
      JNum(5),
      JStr(<<"default_summary_style", "default_summary_length", "default_include_timestamps">>),
      JList(<<JStr(<<"default_summary_style">>), JStr(<<"default_summary_length">>),
              JStr(<<"default_include_timestamps">>)>>),
      JDict(<<>>),
      JDict([default_summary_style |-> JStr(<<"concise">>),
             default_summary_length |-> JNum(500)]),
      JDict([default_summary_style |-> JStr(<<"concise">>),
             default_summary_length |-> JNum(500),
             default_include_timestamps |-> JBool(TRUE)]) }

CandidateJson ==
    { JNull, JNum(0), JNum(5), JStr(<<>>), JStr(<<"x">>),
      JStr(<<"channels", "global_settings">>),
      JList(<<>>), JList(<<JStr(<<"channels">>), JStr(<<"global_settings">>)>>),
      JDict(<<>>) }
    \cup { JDict([channels |-> c]) : c \in CandidateChannels }
    \cup { JDict([global_settings |-> g]) : g \in CandidateGlobalSettings }
    \cup { JDict([channels |-> c, global_settings |-> g]) :
              c \in CandidateChannels, g \in CandidateGlobalSettings }

S3Contents   == S3Failures \cup CandidateJson
FileContents == FileFailures \cup CandidateJson

CfgIdle ==
    /\ s3_object = [t |-> "unset", v |-> <<>>]
    /\ config_file = [t |-> "missing", v |-> <<>>]
    /\ cfg_pc = "idle"
    /\ cfg_config = None
    /\ cfg_result = None

InitConfig ==
    /\ s3_object \in S3Contents
    /\ config_file \in FileContents
    /\ cfg_pc = "s3"
    /\ cfg_config = None
    /\ cfg_result = None

\* line 151
LoadFromS3 ==
    /\ cfg_pc = "s3"
    /\ cfg_config' = load_config_from_s3(s3_object)
    /\ cfg_pc' = "fallback"
    /\ UNCHANGED <<s3_object, config_file, cfg_result>>

\* lines 154-156
LoadFromFile ==
    /\ cfg_pc = "fallback"
    /\ cfg_config' = IF FallsBackToFile(cfg_config)
                     THEN load_config_from_file(config_file)
                     ELSE cfg_config
    /\ cfg_pc' = "validate"
    /\ UNCHANGED <<s3_object, config_file, cfg_result>>

\* lines 159-184
ValidateAndReturn ==
    /\ cfg_pc = "validate"
    /\ cfg_result' = ReturnValidated(cfg_config)
    /\ cfg_pc' = "done"
    /\ UNCHANGED <<s3_object, config_file, cfg_config>>

-----------------------------------------------------------------------------
(* src/services/openai_service.py: generate_tweet.  Texts are their lengths. *)

DefaultMaxLength == 280
MinBudget == 96         \* smallest small max_length given to generate_tweet
YoutubeIdLen == 11      \* length of a YouTube video id

TextLen(n) == [t |-> "text", v |-> n]

Min(a, b) == IF a < b THEN a ELSE b
Max(a, b) == IF a > b THEN a ELSE b

\* len(s[:n]) for a string of length len
Slice(len, n) == IF n >= 0 THEN Min(len, n) ELSE Max(len + n, 0)

\* line 121: len(f"https://youtu.be/{video_id}")
UrlLen(id_len) == 17 + id_len

\* line 122: len(f" - {channel_name}")
AttributionLen(name_len) == 3 + name_len

\* line 126
AvailableNoBuffer(max_length, id_len, name_len) ==
    max_length - UrlLen(id_len) - AttributionLen(name_len)
available_length(max_length, id_len, name_len) ==
    max_length - UrlLen(id_len) - AttributionLen(name_len) - 3

\* line 128
BelowFloorStrict(available) == available < 50
BelowFloor(available) == available <= 50

\* lines 160-161
Fit(content_len, available) ==
    IF content_len > available THEN Slice(content_len, available - 3) + 3
    ELSE content_len

\* A text of n characters: each character is named by its position
Characters(n) == [i \in 1..n |-> i]

\* The three characters of "..."
Ellipsis == <<0, 0, 0>>

\* text[:n]
SliceText(text, n) == SubSeq(text, 1, Slice(Len(text), n))

\* lines 160-161, on the characters
CutAtAvailable(text, available) ==
    IF Len(text) > available THEN SliceText(text, available) \o Ellipsis
    ELSE text
FitText(text, available) ==
    IF Len(text) > available THEN SliceText(text, available - 3) \o Ellipsis
    ELSE text

\* line 164: len(f"{tweet_content} {video_url}{attribution}")
FullTweetLen(content_len, id_len, name_len) ==
    content_len + 1 + UrlLen(id_len) + AttributionLen(name_len)

\* generate_tweet as a function of its arguments and of the completion's answer:
\* the value returned and whether the completion call was made
generate_tweet(key, max_length, id_len, name_len, response) ==
    IF ~key THEN [result |-> None, called |-> FALSE]
    ELSE LET available == available_length(max_length, id_len, name_len)
         IN  IF BelowFloor(available) THEN [result |-> None, called |-> FALSE]
             ELSE IF IsRaised(response) THEN [result |-> None, called |-> TRUE]
             ELSE [result |-> TextLen(FullTweetLen(Fit(response.v, available),
                                                   id_len, name_len)),
                   called |-> TRUE]

Budgets == {DefaultMaxLength} \cup (MinBudget..MaxBudget)
IdLens == {0, YoutubeIdLen}
Responses == {Raised("APIError"), TextLen(260)} \cup { TextLen(n) : n \in 0..MaxRespLen }

TwIdle ==
    /\ tw_pc = "idle"
    /\ tw_args = [max_length |-> DefaultMaxLength, id_len |-> YoutubeIdLen, name_len |-> 0]
    /\ tw_response = Raised("APIError")
    /\ tw_available = 0
    /\ tw_called = FALSE
    /\ tw_content = 0
    /\ tw_body = <<>>
    /\ tw_result = None

InitTweet ==
    /\ tw_pc = "start"
    /\ tw_args \in [max_length : Budgets, id_len : IdLens, name_len : 0..MaxNameLen]
    /\ tw_response \in Responses
    /\ tw_available = 0
    /\ tw_called = FALSE
    /\ tw_content = 0
    /\ tw_body = <<>>
    /\ tw_result = None

\* lines 115-130
TweetBegin ==
    /\ tw_pc = "start"
    /\ IF ~OPENAI_API_KEY
       THEN /\ tw_result' = None
            /\ tw_pc' = "done"
            /\ UNCHANGED tw_available
       ELSE /\ tw_available' = available_length(tw_args.max_length, tw_args.id_len,
                                                tw_args.name_len)
            /\ IF BelowFloor(tw_available')
               THEN tw_result' = None /\ tw_pc' = "done"
               ELSE tw_pc' = "call" /\ UNCHANGED tw_result
    /\ UNCHANGED <<tw_args, tw_response, tw_called, tw_content, tw_body>>

\* lines 132-157, 168-170
TweetCall ==
    /\ tw_pc = "call"
    /\ tw_called' = TRUE
    /\ IF IsRaised(tw_response)
       THEN tw_result' = None /\ tw_pc' = "done" /\ UNCHANGED tw_content
       ELSE tw_content' = tw_response.v /\ tw_pc' = "fit" /\ UNCHANGED tw_result
    /\ UNCHANGED <<tw_args, tw_response, tw_available, tw_body>>

\* lines 159-166
TweetCompose ==
    /\ tw_pc = "fit"
    /\ tw_content' = Fit(tw_content, tw_available)
    /\ tw_body' = FitText(Characters(tw_content), tw_available)
    /\ tw_result' = TextLen(FullTweetLen(tw_content', tw_args.id_len, tw_args.name_len))
    /\ tw_pc' = "done"
    /\ UNCHANGED <<tw_args, tw_response, tw_available, tw_called>>

-----------------------------------------------------------------------------
(* src/services/openai_service.py: generate_summary.  A text is a sequence   *)
(* of pieces; a piece is a run of consecutive characters of one named part.  *)

max_prompt_length == 16000

Piece(part, from, to) == [part |-> part, from |-> from, to |-> to]
PieceLen(p) == p.to - p.from + 1

\* The text of n characters that makes up a part
Part(part, n) == IF n = 0 THEN <<>> ELSE <<Piece(part, 1, n)>>

\* len(text)
RECURSIVE TextLength(_)
TextLength(text) ==
    IF text = <<>> THEN 0 ELSE PieceLen(Head(text)) + TextLength(Tail(text))

\* text[:n] for n >= 0
RECURSIVE Take(_, _)
Take(text, n) ==
    IF text = <<>> \/ n <= 0 THEN <<>>
    ELSE LET p == Head(text)
         IN  IF PieceLen(p) <= n THEN <<p>> \o Take(Tail(text), n - PieceLen(p))
             ELSE <<Piece(p.part, p.from, p.from + n - 1)>>

\* len(str(n)) for n >= 0
RECURSIVE Digits(_)
Digits(n) == IF n < 10 THEN 1 ELSE 1 + Digits(n \div 10)

\* lines 55-59
timestamps_instruction(include_timestamps) ==
    IF include_timestamps THEN "Include key timestamps for important points."
    ELSE "Do not include timestamps."

\* lines 62-64: the context when both the title and the channel name are given
context(args) ==
    IF args.video_title > 0 /\ args.channel_name > 0
    THEN Part("context", Len("The video is titled '") + args.video_title
                           + Len("' from the channel '") + args.channel_name
                           + Len("'. "))
    ELSE <<>>

\* line 66, up to the transcript
instruction(args) ==
    Part("instruction",
         Len("Summarize the following YouTube video transcript in a ") + Len(args.style)
         + Len(" style with a maximum of ") + Digits(args.max_length) + Len(" words. ")
         + Len(timestamps_instruction(args.include_timestamps))
         + Len("\n\nTRANSCRIPT:\n"))

\* line 66
prompt(args) == context(args) \o instruction(args) \o Part("transcript", args.transcript.v)

\* line 75
Marker == Part("marker", Len("... [transcript truncated due to length]"))

\* line 70
AtLeastBudget(length) == length >= max_prompt_length
TooLong(length) == length > max_prompt_length

\* lines 70-76
truncate_prompt(text) ==
    IF TooLong(TextLength(text)) THEN Take(text, max_prompt_length) \o Marker
    ELSE text

SummaryArgs ==
    [transcript : {None} \cup { TextLen(n) : n \in {0} \cup
                      ((max_prompt_length - PromptMargin)..max_prompt_length) },
     style : {"concise", "detailed", "bullet_points"},
     max_length : {50, 500},
     include_timestamps : BOOLEAN,
     video_title : {0, 12},
     channel_name : {0, 7}]

SmIdle ==
    /\ sm_pc = "idle"
    /\ sm_args = [transcript |-> None, style |-> "concise", max_length |-> 500,
                  include_timestamps |-> TRUE, video_title |-> 0, channel_name |-> 0]
    /\ sm_prompt = <<>>
    /\ sm_sent = None
    /\ sm_result = None

InitSummary ==
    /\ sm_pc = "start"
    /\ sm_args \in SummaryArgs
    /\ sm_prompt = <<>>
    /\ sm_sent = None
    /\ sm_result = None

\* lines 45-51
SummaryBegin ==
    /\ sm_pc = "start"
    /\ IF ~OPENAI_API_KEY \/ Not(sm_args.transcript)
       THEN sm_pc' = "done"
       ELSE sm_pc' = "compose"
    /\ UNCHANGED <<sm_args, sm_prompt, sm_sent, sm_result>>

\* lines 53-66
SummaryCompose ==
    /\ sm_pc = "compose"
    /\ sm_prompt' = prompt(sm_args)
    /\ sm_pc' = "truncate"
    /\ UNCHANGED <<sm_args, sm_sent, sm_result>>

\* lines 68-76
SummaryTruncate ==
    /\ sm_pc = "truncate"
    /\ sm_sent' = JList(truncate_prompt(sm_prompt))
    /\ sm_pc' = "call"
    /\ UNCHANGED <<sm_args, sm_prompt, sm_result>>

\* lines 78-98: the completion answers a text (stripped), or the call raises
SummaryCall ==
    /\ sm_pc = "call"
    /\ \E response \in {Raised("APIError"), JStr(<<>>), JStr(<<"summary">>)} :
         sm_result' = IF IsRaised(response) THEN None ELSE response
    /\ sm_pc' = "done"
    /\ UNCHANGED <<sm_args, sm_prompt, sm_sent>>

-----------------------------------------------------------------------------
(* src/services/youtube_service.py *)

\* The video ids of the model
Ids == 1..NumIds

KeyValues == {None, JStr(<<"test_api_key">>), JStr(<<"other_api_key">>)}

\* line 31: the object build() returns for a developer key
Client(key) == [t |-> "client", v |-> key.v]

\* line 71: search_response.get("items", [])
ItemsOrNone(response) == Get(response, "items", None)
Items(response) == Get(response, "items", JList(<<>>))

\* What execute() can do (line 69): raise HttpError, raise anything else, or
\* answer a response with or without an "items" list
SearchResponses ==
    { JDict([kind |-> JStr(<<"youtube#searchListResponse">>)]) }
    \cup { JDict([kind |-> JStr(<<"youtube#searchListResponse">>), items |-> JList(s)]) :
             s \in SeqsUpTo(Ids, MaxResults) }

SearchOutcomes == {Raised("HttpError"), Raised("Exception")} \cup SearchResponses

\* Texts of transcript segments, as sequences of characters
SegTexts == { <<>>, <<"a">>, <<"b">>, <<" ">>, <<"a", " ", "b">> }

Entry(text) == [text |-> text]

Languages == {"en", "fr"}

\* What list_transcripts can do (line 93): raise, or answer the transcripts of
\* the video: the languages they exist in, whether they can be translated, and
\* what fetch() gives for them (the segments, or an exception)
TranscriptData == { JList(s) : s \in SeqsUpTo({ Entry(x) : x \in SegTexts }, MaxSegments) }

Listings ==
    {Raised("TranscriptsDisabled"), Raised("NoTranscriptFound"), Raised("Exception")}
    \cup { [t |-> "transcripts",
            v |-> [available |-> a, translatable |-> tr, data |-> d]] :
             a \in SUBSET Languages, tr \in BOOLEAN,
             d \in {Raised("Exception")} \cup TranscriptData }

Transcript(language, source) ==
    [t |-> "transcript", v |-> [language |-> language, source |-> source]]

\* TranscriptList.find_transcript(language_codes), called at lines 97 and 101:
\* the transcript of the first requested code that exists, NoTranscriptFound
\* when none of the requested codes exists
find_transcript(listing, language_codes) ==
    IF \E i \in DOMAIN language_codes : language_codes[i] \in listing.v.available
    THEN LET i == CHOOSE k \in DOMAIN language_codes :
                     /\ language_codes[k] \in listing.v.available
                     /\ \A j \in 1..(k-1) : language_codes[j] \notin listing.v.available
         IN  Transcript(language_codes[i], language_codes[i])
    ELSE Raised("NoTranscriptFound")

\* Transcript.translate(language_code), line 102
translate(listing, tr, language_code) ==
    IF listing.v.translatable THEN Transcript(language_code, tr.v.language)
    ELSE Raised("NotTranslatable")

\* lines 96-107: the transcript selected, or None when the fallback raised
AnyLanguage == <<>>
select_transcript(listing, language_code) ==
    LET preferred == find_transcript(listing, <<language_code>>)
    IN  IF ~IsRaised(preferred) THEN preferred
        ELSE LET any == find_transcript(listing, AnyLanguage)
             IN  IF IsRaised(any) THEN None
                 ELSE LET translated == translate(listing, any, language_code)
                      IN  IF IsRaised(translated) THEN None ELSE translated

\* str.join: the texts with the separator between consecutive ones
RECURSIVE Join(_, _)
Join(texts, sep) ==
    IF texts = <<>> THEN <<>>
    ELSE IF Len(texts) = 1 THEN texts[1]
    ELSE texts[1] \o sep \o Join(Tail(texts), sep)

\* line 113: " ".join([entry["text"] for entry in transcript_data])
JoinedWithoutSpace(transcript_data) ==
    Join([i \in DOMAIN transcript_data |-> transcript_data[i].text], <<>>)
full_transcript(transcript_data) ==
    Join([i \in DOMAIN transcript_data |-> transcript_data[i].text], <<" ">>)

NoListing == Raised("Exception")
NoResponse == Raised("Exception")

YtIdle ==
    /\ environ = None
    /\ YOUTUBE_API_KEY = None
    /\ yt_pc = "idle"
    /\ yt_op = "none"
    /\ yt_build = "ok"
    /\ yt_execute = NoResponse
    /\ yt_listing = NoListing
    /\ yt_built = None
    /\ youtube = None
    /\ yt_transcript = None
    /\ yt_result = None

\* line 21 has run: the module constant holds the key of the environment the
\* module was imported in
InitYoutube ==
    /\ environ \in KeyValues
    /\ YOUTUBE_API_KEY = environ
    /\ yt_pc = "imported"
    /\ yt_op \in {"get_channel_videos", "get_video_transcript"}
    /\ IF yt_op = "get_channel_videos"
       THEN yt_build \in {"ok", "raise"} /\ yt_execute \in SearchOutcomes
            /\ yt_listing = NoListing
       ELSE yt_build = "ok" /\ yt_execute = NoResponse /\ yt_listing \in Listings
    /\ yt_built = None
    /\ youtube = None
    /\ yt_transcript = None
    /\ yt_result = None

\* The environment changes after the import (patch.dict(os.environ, ...) in
\* tests/test_youtube_service.py lines 36 and 53)
SetEnviron ==
    /\ yt_pc = "imported"
    /\ yt_op = "get_channel_videos"
    /\ \E k \in KeyValues \ {environ} : environ' = k
    /\ UNCHANGED <<YOUTUBE_API_KEY, yt_pc, yt_op, yt_build, yt_execute, yt_listing,
                   yt_built, youtube, yt_transcript, yt_result>>

\* lines 50-52 with get_youtube_client, lines 24-35
GetYoutubeClient ==
    /\ yt_pc = "imported"
    /\ yt_op = "get_channel_videos"
    /\ IF Not(YOUTUBE_API_KEY)
       THEN youtube' = None /\ UNCHANGED yt_built
       ELSE /\ yt_built' = YOUTUBE_API_KEY
            /\ youtube' = IF yt_build = "ok" THEN Client(YOUTUBE_API_KEY) ELSE None
    /\ IF youtube' = None
       THEN yt_pc' = "done" /\ yt_result' = None
       ELSE yt_pc' = "search" /\ UNCHANGED yt_result
    /\ UNCHANGED <<environ, YOUTUBE_API_KEY, yt_op, yt_build, yt_execute, yt_listing,
                   yt_transcript>>

\* lines 54-78
Search ==
    /\ yt_pc = "search"
    /\ yt_result' = IF IsRaised(yt_execute) THEN None ELSE Items(yt_execute)
    /\ yt_pc' = "done"
    /\ UNCHANGED <<environ, YOUTUBE_API_KEY, yt_op, yt_build, yt_execute, yt_listing,
                   yt_built, youtube, yt_transcript>>

\* lines 92-93 and 117-125
ListTranscripts ==
    /\ yt_pc = "imported"
    /\ yt_op = "get_video_transcript"
    /\ IF IsRaised(yt_listing)
       THEN yt_pc' = "done" /\ yt_result' = None
       ELSE yt_pc' = "find" /\ UNCHANGED yt_result
    /\ UNCHANGED <<environ, YOUTUBE_API_KEY, yt_op, yt_build, yt_execute, yt_listing,
                   yt_built, youtube, yt_transcript>>

\* lines 96-107, language_code = "en"
FindTranscript ==
    /\ yt_pc = "find"
    /\ yt_transcript' = select_transcript(yt_listing, "en")
    /\ IF yt_transcript' = None
       THEN yt_pc' = "done" /\ yt_result' = None
       ELSE yt_pc' = "fetch" /\ UNCHANGED yt_result
    /\ UNCHANGED <<environ, YOUTUBE_API_KEY, yt_op, yt_build, yt_execute, yt_listing,
                   yt_built, youtube>>

\* lines 110-115 and 123-125
FetchAndJoin ==
    /\ yt_pc = "fetch"
    /\ yt_result' = IF IsRaised(yt_listing.v.data) THEN None
                    ELSE JStr(full_transcript(yt_listing.v.data.v))
    /\ yt_pc' = "done"
    /\ UNCHANGED <<environ, YOUTUBE_API_KEY, yt_op, yt_build, yt_execute, yt_listing,
                   yt_built, youtube, yt_transcript>>

-----------------------------------------------------------------------------
(* src/utils/db.py: get_processed_videos, one table.scan call at a time *)

\* A set of video ids: the video_id values of the items of one scan response
\* (which carries a LastEvaluatedKey exactly when another page follows), and
\* the value returned
SetOf(ids) == [t |-> "set", v |-> ids]

\* lines 107-112: what the except clauses return
ReturnsCollected(ids) == SetOf(ids)
on_scan_error(ids) == SetOf({})

ScanIdle ==
    /\ scan_pc = "idle"
    /\ scan_table = FALSE
    /\ scan_pages = <<>>
    /\ scan_page = 0
    /\ video_ids = {}
    /\ scan_result = None

InitScan ==
    /\ scan_pc = "start"
    /\ scan_table \in BOOLEAN
    /\ scan_pages \in SeqsUpTo({Raised("ClientError"), Raised("Exception")}
                                   \cup { SetOf(ids) : ids \in SUBSET Ids }, MaxPages) \ {<<>>}
    /\ scan_page = 0
    /\ video_ids = {}
    /\ scan_result = None

\* lines 82-84
ScanEnsureTable ==
    /\ scan_pc = "start"
    /\ IF scan_table
       THEN scan_pc' = "scan" /\ UNCHANGED scan_result
       ELSE scan_pc' = "done" /\ scan_result' = SetOf({})
    /\ UNCHANGED <<scan_table, scan_pages, scan_page, video_ids>>

\* lines 86-94 and 107-112
ScanFirstPage ==
    /\ scan_pc = "scan"
    /\ scan_page' = 1
    /\ IF IsRaised(scan_pages[1])
       THEN /\ scan_pc' = "done"
            /\ scan_result' = on_scan_error(video_ids)
            /\ UNCHANGED video_ids
       ELSE /\ scan_pc' = "more"
            /\ video_ids' = scan_pages[1].v
            /\ UNCHANGED scan_result
    /\ UNCHANGED <<scan_table, scan_pages>>

\* lines 97-102 and 107-112: one iteration of `while "LastEvaluatedKey" in response`
ScanNextPage ==
    /\ scan_pc = "more"
    /\ scan_page < Len(scan_pages)
    /\ scan_page' = scan_page + 1
    /\ IF IsRaised(scan_pages[scan_page'])
       THEN /\ scan_pc' = "done"
            /\ scan_result' = on_scan_error(video_ids)
            /\ UNCHANGED video_ids
       ELSE /\ video_ids' = video_ids \cup scan_pages[scan_page'].v
            /\ UNCHANGED <<scan_pc, scan_result>>
    /\ UNCHANGED <<scan_table, scan_pages>>

\* lines 104-105
ScanReturn ==
    /\ scan_pc = "more"
    /\ scan_page = Len(scan_pages)
    /\ scan_result' = SetOf(video_ids)
    /\ scan_pc' = "done"
    /\ UNCHANGED <<scan_table, scan_pages, scan_page, video_ids>>

-----------------------------------------------------------------------------
(* src/main.py with src/utils/db.py and src/services/twitter_service.py *)

NoCalls ==
    [fetch |-> 0, summ |-> 0, twitter |-> 0, tweet |-> 0, post |-> 0, blog |-> 0, mark |-> 0]
Count(c, kind) == [c EXCEPT ![kind] = @ + 1]

EmptyText == JStr(<<>>)
SomeText  == JStr(<<"text">>)
Texts     == {None, EmptyText, SomeText}

\* The configurations a run can get from load_config: those it returns unchanged
ValidGlobalSettings ==
    JDict([default_summary_style |-> JStr(<<"concise">>),
           default_summary_length |-> JNum(500),
           default_include_timestamps |-> JBool(TRUE)])

ListGlobalSettings ==
    JList(<<JStr(<<"default_summary_style">>), JStr(<<"default_summary_length">>),
            JStr(<<"default_include_timestamps">>)>>)

ConfiguredChannel ==
    { JDict([channel_id |-> JStr(<<"UC1">>), name |-> JStr(<<"A">>)]),
      JDict([channel_id |-> JStr(<<"UC1">>), name |-> JStr(<<"A">>),
             post_to_twitter |-> JBool(TRUE), post_to_blog |-> JBool(TRUE)]),
      JDict([channel_id |-> JStr(<<"UC1">>), name |-> JStr(<<"A">>),
             post_to_twitter |-> JBool(FALSE), post_to_blog |-> JBool(TRUE)]) }

LoadableConfigs ==
    { c \in { JDict([channels |-> JList(s), global_settings |-> ValidGlobalSettings]) :
                 s \in SeqsUpTo(ConfiguredChannel, MaxChannels) }
            \cup { JDict([channels |-> JList(<<ch>>), global_settings |-> ListGlobalSettings]) :
                     ch \in ConfiguredChannel }
            \cup {DefaultConfig} :
      ReturnValidated(c) = c }

\* src/utils/db.py: the table maps a video_id to at most one item (lines
\* 136-141 build it; its key is the video_id)
NoItem == [present |-> FALSE]
Item(id) == [present |-> TRUE, video_id |-> id]

\* db.py lines 82-112: every stored id, or the empty set when the table
\* cannot be ensured or the scan fails
get_processed_videos(table, usable) ==
    IF usable THEN { id \in Ids : table[id].present } ELSE {}

\* db.py line 145: table.put_item(Item=item)
put_item(table, id, item) == [table EXCEPT ![id] = item]

\* main.py line 140
NeverProcessed(id, processed) == FALSE
AlreadyProcessed(id, processed) == id \in processed

\* main.py line 68: `if not summary`
SummaryIsNone(s) == s = None
NoSummary(s) == Not(s)

\* main.py lines 75-84: a failed post is logged and the record step follows
RecordOnlyIfPosted(success) == success # "False"
RecordStepFollows(success) == TRUE

\* What one discovery call can return: None, or a list of distinct video ids
DiscoveryResults ==
    {None} \cup { JList(s) : s \in { q \in SeqsUpTo(Ids, MaxResults) :
                                       \A i, j \in DOMAIN q : q[i] = q[j] => i = j } }

ChannelNameLens == {MaxNameLen, DefaultMaxLength}

\* twitter_service.py lines 27-51: get_twitter_client gives None when a
\* credential is missing or tweepy.Client raises, a client otherwise
TwitterClients == {None, JStr(<<"tweepy.Client">>)}

\* lambda_handler lines 94-97 and 98-100: the two values it returns
Success == [statusCode |-> 200, message |-> "Processing completed successfully"]
Error(e) == [statusCode |-> 500, message |-> e]

\* lambda_handler line 98: what the `except` clause makes of an exception of main()
Propagates(e) == Raised(e.v)
except_Exception(e) == Error(e.v)

InitMain ==
    /\ pc = "idle"
    /\ config = None
    /\ processed_videos = {}
    /\ channel_idx = 0
    /\ videos = None
    /\ video_idx = 0
    /\ video_id = 0
    /\ transcript = None
    /\ summary = None
    /\ twitter_success = "unset"
    /\ mark_result = FALSE
    /\ db = [id \in Ids |-> NoItem]
    /\ outcome = None
    /\ raised = None
    /\ discovered = "nothing"
    /\ calls = {}
    /\ attempt = NoCalls
    /\ queried = <<>>
    /\ fetched = <<>>
    /\ failed = FALSE

MainIdle == InitMain

InitAudit == summarized = {} /\ posted = {} /\ reads = 0 /\ summaries = 0 /\ marks = 0

locals == <<video_id, transcript, summary, twitter_success, mark_result, attempt>>
loopvars == <<channel_idx, videos, video_idx>>
history == <<discovered, calls>>
progress == <<queried, fetched, failed>>

\* lambda_handler line 93 / __main__ line 148: a run of main() begins
StartRun ==
    /\ pc = "idle"
    /\ pc' = "load_config"
    /\ config' = None
    /\ processed_videos' = {}
    /\ channel_idx' = 0
    /\ videos' = None
    /\ video_idx' = 0
    /\ outcome' = None
    /\ raised' = None
    /\ discovered' = "nothing"
    /\ calls' = {}
    /\ queried' = <<>>
    /\ fetched' = <<>>
    /\ failed' = FALSE
    /\ UNCHANGED <<locals, db>>

\* main.py lines 105-106: load_config returns a configuration, or raises the
\* TypeError of validate_config (config.py lines 107 and 136, not caught)
LoadConfig ==
    /\ pc = "load_config"
    /\ \E c \in LoadableConfigs \cup {Raised("TypeError")} :
         IF IsRaised(c)
         THEN pc' = "raised" /\ raised' = c /\ UNCHANGED config
         ELSE pc' = "get_processed" /\ config' = c /\ UNCHANGED raised
    /\ UNCHANGED <<processed_videos, loopvars, locals, db, outcome, history, progress>>

\* main.py line 109
GetProcessedVideos ==
    /\ pc = "get_processed"
    /\ \E usable \in BOOLEAN : processed_videos' = get_processed_videos(db, usable)
    /\ pc' = "look_back"
    /\ UNCHANGED <<config, loopvars, locals, db, outcome, raised, history, progress>>

\* main.py lines 112-115: .get on global_settings raises when it is not a dict
LookBack ==
    /\ pc = "look_back"
    /\ IF config.v["global_settings"].t = "dict"
       THEN pc' = "channel" /\ channel_idx' = 1 /\ UNCHANGED raised
       ELSE pc' = "raised" /\ raised' = Raised("AttributeError") /\ UNCHANGED channel_idx
    /\ UNCHANGED <<config, processed_videos, videos, video_idx,
                   locals, db, outcome, history, progress>>

\* main.py lines 131-133: `continue` after a discovery that gave nothing goes
\* on with the next channel (a `return` there would leave the loop)
ReturnsFromMain(idx, n) == n + 1
after_no_videos(idx, n) == idx + 1

\* main.py lines 136-137: the video of the idx-th iteration of `for video in videos`
video_from_end(list, idx) == list.v[Len(list.v) + 1 - idx]
video_at(list, idx) == list.v[idx]

\* main.py lines 118-133: one iteration of the channel loop
Discover ==
    /\ pc = "channel"
    /\ channel_idx <= Len(config.v["channels"].v)
    /\ \E result \in DiscoveryResults :
         /\ videos' = IF Not(result) THEN None ELSE result
         /\ discovered' =
               IF Not(result) THEN discovered
               ELSE IF /\ discovered # "some_new"
                       /\ \A i \in DOMAIN result.v : result.v[i] \in processed_videos
                    THEN "only_processed"
                    ELSE "some_new"
         /\ IF Not(result)
            THEN /\ channel_idx' = after_no_videos(channel_idx, Len(config.v["channels"].v))
                 /\ UNCHANGED <<pc, video_idx>>
            ELSE pc' = "video" /\ video_idx' = 1 /\ UNCHANGED channel_idx
         /\ failed' = (failed \/ result = None)
    /\ queried' = Append(queried, channel_idx)
    /\ fetched' = <<>>
    /\ UNCHANGED <<config, processed_videos, locals, db, outcome, raised, calls>>

\* main.py line 118 exhausted: main returns (lambda_handler lines 94-97)
EndRun ==
    /\ pc = "channel"
    /\ channel_idx > Len(config.v["channels"].v)
    /\ pc' = "idle"
    /\ outcome' = Success
    /\ UNCHANGED <<config, processed_videos, loopvars, locals, db, raised, history,
                   progress>>

\* lambda_handler lines 98-100: `except Exception as e` returns the error outcome
HandleException ==
    /\ pc = "raised"
    /\ pc' = "idle"
    /\ outcome' = except_Exception(raised)
    /\ UNCHANGED <<config, processed_videos, loopvars, locals, db, raised, history,
                   progress>>

\* main.py lines 136-144 and 36-40: one iteration of the video loop
NextVideo ==
    /\ pc = "video"
    /\ IF video_idx > Len(videos.v)
       THEN /\ pc' = "channel"
            /\ channel_idx' = channel_idx + 1
            /\ videos' = None
            /\ video_idx' = 0
            /\ fetched' = <<>>
            /\ UNCHANGED locals
       ELSE IF AlreadyProcessed(video_at(videos, video_idx), processed_videos)
       THEN /\ video_idx' = video_idx + 1
            /\ UNCHANGED <<pc, channel_idx, videos, locals, fetched>>
       ELSE /\ pc' = "transcript"
            /\ video_id' = video_at(videos, video_idx)
            /\ UNCHANGED <<channel_idx, videos, video_idx, transcript, summary,
                           twitter_success, mark_result, attempt, fetched>>
    /\ UNCHANGED <<config, processed_videos, db, outcome, raised, history, queried, failed>>

\* main.py lines 43-46 (youtube_service.get_video_transcript: a text or None)
GetTranscript ==
    /\ pc = "transcript"
    /\ \E t \in Texts :
         /\ transcript' = t
         /\ IF Not(t)
            THEN pc' = "return"
            ELSE pc' = "summary"
    /\ calls' = calls \cup {"fetch"}
    /\ attempt' = Count(attempt, "fetch")
    /\ fetched' = Append(fetched, video_id)
    /\ failed' = (failed \/ Not(transcript'))
    /\ UNCHANGED <<config, processed_videos, loopvars,
                   video_id, summary, twitter_success, mark_result, db, outcome, raised,
                   discovered, queried>>

\* main.py lines 49-70 (openai_service.generate_summary lines 45-98)
GenerateSummary ==
    /\ pc = "summary"
    /\ IF ~OPENAI_API_KEY \/ Not(transcript)
       THEN /\ summary' = None
            /\ UNCHANGED <<calls, attempt>>
       ELSE /\ \E s \in Texts : summary' = s         \* None: the completion call raised
            /\ calls' = calls \cup {"summ"}
            /\ attempt' = Count(attempt, "summ")
    /\ pc' = IF NoSummary(summary') THEN "return" ELSE "twitter"
    /\ failed' = (failed \/ Not(summary'))
    /\ UNCHANGED <<config, processed_videos, loopvars,
                   video_id, transcript, twitter_success, mark_result, db, outcome, raised,
                   discovered, queried, fetched>>

channel == config.v["channels"].v[channel_idx]

\* main.py lines 73 and 79: channel_config.get(flag, False)
EnabledUnlessDisabled(source, flag) == Truthy(Get(source, flag, JBool(TRUE)))
SinkEnabled(source, flag) == Truthy(Get(source, flag, JBool(FALSE)))

\* main.py lines 73-76 (twitter_service.post_to_twitter lines 67-95)
PostToTwitter ==
    /\ pc = "twitter"
    /\ IF ~SinkEnabled(channel, "post_to_twitter")
       THEN UNCHANGED <<twitter_success, calls, attempt>>
       ELSE \E client \in TwitterClients, name_len \in ChannelNameLens,
               response \in {Raised("APIError"), TextLen(MaxRespLen)},
               post \in {"ok", "unexpected", "raise"} :
              LET tweet == generate_tweet(OPENAI_API_KEY, DefaultMaxLength,
                                          YoutubeIdLen, name_len, response)
              IN  IF Not(client)                         \* lines 67-69
                  THEN /\ twitter_success' = "False"
                       /\ attempt' = Count(attempt, "twitter")
                       /\ UNCHANGED calls
                  ELSE IF Not(tweet.result)               \* lines 73-77
                  THEN /\ twitter_success' = "False"
                       /\ attempt' = Count(Count(attempt, "twitter"), "tweet")
                       /\ UNCHANGED calls
                  ELSE /\ twitter_success' = IF post = "ok" THEN "True" ELSE "False"
                       /\ calls' = calls \cup {"post"}
                       /\ attempt' = Count(Count(Count(attempt, "twitter"), "tweet"), "post")
    /\ pc' = "blog"
    /\ failed' = (failed \/ twitter_success' = "False")
    /\ UNCHANGED <<config, processed_videos, loopvars, video_id,
                   transcript, summary, mark_result, db, outcome, raised, discovered,
                   queried, fetched>>

\* main.py lines 79-81: the blog sink is a placeholder that only logs
PostToBlog ==
    /\ pc = "blog"
    /\ IF SinkEnabled(channel, "post_to_blog")
       THEN attempt' = Count(attempt, "blog")
       ELSE UNCHANGED attempt
    /\ UNCHANGED calls
    /\ pc' = IF RecordStepFollows(twitter_success) THEN "mark" ELSE "return"
    /\ UNCHANGED <<config, processed_videos, loopvars,
                   video_id, transcript, summary, twitter_success, mark_result, db,
                   outcome, raised, discovered, progress>>

\* main.py lines 84-87 (db.mark_video_as_processed lines 127-155)
MarkProcessed ==
    /\ pc = "mark"
    /\ \E stored \in BOOLEAN :
         /\ mark_result' = stored
         /\ db' = IF stored THEN put_item(db, video_id, Item(video_id)) ELSE db
    /\ calls' = calls \cup {"mark"}
    /\ attempt' = Count(attempt, "mark")
    /\ pc' = "return"
    /\ failed' = (failed \/ ~mark_result')
    /\ UNCHANGED <<config, processed_videos, loopvars,
                   video_id, transcript, summary, twitter_success, outcome, raised,
                   discovered, queried, fetched>>

NoLocals ==
    /\ video_id' = 0
    /\ transcript' = None
    /\ summary' = None
    /\ twitter_success' = "unset"
    /\ mark_result' = FALSE
    /\ attempt' = NoCalls

\* main.py line 144: process_video has returned, the video loop goes on
ProcessVideoReturns ==
    /\ pc = "return"
    /\ pc' = "video"
    /\ video_idx' = video_idx + 1
    /\ NoLocals
    /\ UNCHANGED <<config, processed_videos, channel_idx, videos,
                   db, outcome, raised, history, progress>>

-----------------------------------------------------------------------------
(* Specifications *)

others == <<cfgvars, OPENAI_API_KEY, twvars, smvars, ytvars, scanvars>>

Init == CfgIdle /\ TwIdle /\ SmIdle /\ YtIdle /\ OPENAI_API_KEY \in BOOLEAN /\ ScanIdle
    /\ InitMain /\ InitAudit

Next ==
    \/ (StartRun /\ UNCHANGED <<others, auditvars>>)
    \/ (LoadConfig /\ UNCHANGED <<others, auditvars>>)
    \/ (GetProcessedVideos /\ UNCHANGED <<others, auditvars>>)
    \/ (LookBack /\ UNCHANGED <<others, auditvars>>)
    \/ (Discover /\ UNCHANGED <<others, auditvars>>)
    \/ (EndRun /\ UNCHANGED <<others, auditvars>>)
    \/ (NextVideo /\ UNCHANGED <<others, auditvars>>)
    \/ (GetTranscript /\ UNCHANGED <<others, auditvars>>)
    \/ (GenerateSummary /\ UNCHANGED <<others, auditvars>>)
    \/ (PostToTwitter /\ UNCHANGED <<others, auditvars>>)
    \/ (PostToBlog /\ UNCHANGED <<others, auditvars>>)
    \/ (MarkProcessed /\ UNCHANGED <<others, auditvars>>)
    \/ (ProcessVideoReturns /\ UNCHANGED <<others, auditvars>>)
    \/ (HandleException /\ UNCHANGED <<others, auditvars>>)

Spec == Init /\ [][Next]_vars

\* The same runs, with the ids summarized and posted remembered across runs
\* and the calls of each run counted
SummaryGenerated(id) == pc = "summary" /\ video_id = id /\ Truthy(summary')
TweetPosted(id) == pc = "twitter" /\ video_id = id /\ twitter_success' = "True"

\* a count that main starts from zero and that the step taken may raise by one
PerRun(count, counted) ==
    IF pc = "idle" THEN 0 ELSE IF counted THEN count + 1 ELSE count

Audit ==
    /\ summarized' = summarized \cup { id \in Ids : SummaryGenerated(id) }
    /\ posted' = posted \cup { id \in Ids : TweetPosted(id) }
    /\ reads' = PerRun(reads, pc = "get_processed")
    /\ summaries' = PerRun(summaries, \E id \in Ids : SummaryGenerated(id))
    /\ marks' = PerRun(marks, pc = "mark")

NextAudited ==
    \/ (StartRun /\ Audit /\ UNCHANGED others)
    \/ (LoadConfig /\ Audit /\ UNCHANGED others)
    \/ (GetProcessedVideos /\ Audit /\ UNCHANGED others)
    \/ (LookBack /\ Audit /\ UNCHANGED others)
    \/ (Discover /\ Audit /\ UNCHANGED others)
    \/ (EndRun /\ Audit /\ UNCHANGED others)
    \/ (NextVideo /\ Audit /\ UNCHANGED others)
    \/ (GetTranscript /\ Audit /\ UNCHANGED others)
    \/ (GenerateSummary /\ Audit /\ UNCHANGED others)
    \/ (PostToTwitter /\ Audit /\ UNCHANGED others)
    \/ (PostToBlog /\ Audit /\ UNCHANGED others)
    \/ (MarkProcessed /\ Audit /\ UNCHANGED others)
    \/ (ProcessVideoReturns /\ Audit /\ UNCHANGED others)
    \/ (HandleException /\ Audit /\ UNCHANGED others)

SpecAudited == Init /\ [][NextAudited]_vars

InitOfConfig ==
    InitConfig /\ TwIdle /\ SmIdle /\ YtIdle /\ OPENAI_API_KEY = TRUE /\ ScanIdle /\ MainIdle /\ InitAudit

NextConfig ==
    \/ (LoadFromS3 /\ UNCHANGED <<OPENAI_API_KEY, twvars, smvars, ytvars, scanvars, mainvars, auditvars>>)
    \/ (LoadFromFile /\ UNCHANGED <<OPENAI_API_KEY, twvars, smvars, ytvars, scanvars, mainvars, auditvars>>)
    \/ (ValidateAndReturn /\ UNCHANGED <<OPENAI_API_KEY, twvars, smvars, ytvars, scanvars, mainvars, auditvars>>)

SpecConfig == InitOfConfig /\ [][NextConfig]_vars

InitOfTweet ==
    CfgIdle /\ InitTweet /\ SmIdle /\ YtIdle /\ OPENAI_API_KEY \in BOOLEAN /\ ScanIdle /\ MainIdle /\ InitAudit

NextTweet ==
    \/ (TweetBegin /\ UNCHANGED <<cfgvars, OPENAI_API_KEY, smvars, ytvars, scanvars, mainvars, auditvars>>)
    \/ (TweetCall /\ UNCHANGED <<cfgvars, OPENAI_API_KEY, smvars, ytvars, scanvars, mainvars, auditvars>>)
    \/ (TweetCompose /\ UNCHANGED <<cfgvars, OPENAI_API_KEY, smvars, ytvars, scanvars, mainvars, auditvars>>)

SpecTweet == InitOfTweet /\ [][NextTweet]_vars

InitOfYoutube ==
    CfgIdle /\ TwIdle /\ SmIdle /\ InitYoutube /\ OPENAI_API_KEY = TRUE /\ ScanIdle /\ MainIdle /\ InitAudit

NextYoutube ==
    \/ (SetEnviron /\ UNCHANGED <<cfgvars, OPENAI_API_KEY, twvars, smvars, scanvars, mainvars, auditvars>>)
    \/ (GetYoutubeClient /\ UNCHANGED <<cfgvars, OPENAI_API_KEY, twvars, smvars, scanvars, mainvars, auditvars>>)
    \/ (Search /\ UNCHANGED <<cfgvars, OPENAI_API_KEY, twvars, smvars, scanvars, mainvars, auditvars>>)
    \/ (ListTranscripts /\ UNCHANGED <<cfgvars, OPENAI_API_KEY, twvars, smvars, scanvars, mainvars, auditvars>>)
    \/ (FindTranscript /\ UNCHANGED <<cfgvars, OPENAI_API_KEY, twvars, smvars, scanvars, mainvars, auditvars>>)
    \/ (FetchAndJoin /\ UNCHANGED <<cfgvars, OPENAI_API_KEY, twvars, smvars, scanvars, mainvars, auditvars>>)

SpecYoutube == InitOfYoutube /\ [][NextYoutube]_vars

InitOfSummary ==
    CfgIdle /\ TwIdle /\ InitSummary /\ YtIdle /\ OPENAI_API_KEY \in BOOLEAN /\ ScanIdle /\ MainIdle
    /\ InitAudit

NextSummary ==
    \/ (SummaryBegin /\ UNCHANGED <<cfgvars, OPENAI_API_KEY, twvars, ytvars, scanvars, mainvars, auditvars>>)
    \/ (SummaryCompose /\ UNCHANGED <<cfgvars, OPENAI_API_KEY, twvars, ytvars, scanvars, mainvars, auditvars>>)
    \/ (SummaryTruncate /\ UNCHANGED <<cfgvars, OPENAI_API_KEY, twvars, ytvars, scanvars, mainvars, auditvars>>)
    \/ (SummaryCall /\ UNCHANGED <<cfgvars, OPENAI_API_KEY, twvars, ytvars, scanvars, mainvars, auditvars>>)

SpecSummary == InitOfSummary /\ [][NextSummary]_vars

InitOfScan ==
    CfgIdle /\ TwIdle /\ SmIdle /\ YtIdle /\ InitScan /\ OPENAI_API_KEY = TRUE /\ MainIdle
    /\ InitAudit

NextScan ==
    \/ (ScanEnsureTable /\ UNCHANGED <<cfgvars, OPENAI_API_KEY, twvars, smvars, ytvars, mainvars, auditvars>>)
    \/ (ScanFirstPage /\ UNCHANGED <<cfgvars, OPENAI_API_KEY, twvars, smvars, ytvars, mainvars, auditvars>>)
    \/ (ScanNextPage /\ UNCHANGED <<cfgvars, OPENAI_API_KEY, twvars, smvars, ytvars, mainvars, auditvars>>)
    \/ (ScanReturn /\ UNCHANGED <<cfgvars, OPENAI_API_KEY, twvars, smvars, ytvars, mainvars, auditvars>>)

SpecScan == InitOfScan /\ [][NextScan]_vars

-----------------------------------------------------------------------------
(* Properties of the pipeline, checked under Spec (C1 under SpecAudited) *)

\* C1: over all runs, and within one run, no id has a summary generated for it
\* a second time and no id is posted to Twitter a second time.
C1_AtMostOnce ==
    [][\A id \in Ids : /\ SummaryGenerated(id) => id \notin summarized
                       /\ TweetPosted(id) => id \notin posted]_vars

\* C2: while every id returned by discovery in this run is in the set read at
\* the start of the run, the run has fetched no transcript, called no
\* summarization, posted nothing and written no processed record.
C2_Idempotent ==
    discovered # "some_new" => calls = {} /\ attempt = NoCalls

C2_Witness ==
    /\ pc = "idle" /\ outcome = Success
    /\ discovered = "only_processed"
    /\ calls = {}

\* C3 (as amended): when process_video returns after a summary was generated,
\* mark_video_as_processed has been invoked exactly once in that call whatever
\* the Twitter outcome, and the item of that video is in the table when that
\* write succeeded.
C3_RecordedWhateverTheSink ==
    (pc = "return" /\ Truthy(summary)) =>
        /\ attempt.mark = 1
        /\ mark_result => db[video_id] = Item(video_id)

C3_Witness ==
    /\ pc = "return" /\ Truthy(summary)
    /\ twitter_success = "False"
    /\ attempt.mark = 1 /\ mark_result /\ db[video_id] = Item(video_id)

\* C3 (as stated): a generated summary whose only sink failed still leaves
\* exactly one new processed record for the item.
C3_Original ==
    (pc = "return" /\ Truthy(summary) /\ twitter_success = "False") =>
        /\ attempt.mark = 1
        /\ db[video_id] = Item(video_id)

\* C4: within one process_video call a record is written only after a
\* non-empty transcript and a non-empty summary; an empty or missing
\* transcript is followed by no summarization, post or write, and an empty or
\* missing summary by no post or write.
C4_RecordNeedsTranscriptAndSummary ==
    /\ attempt.mark > 0 =>
          Truthy(transcript) /\ Truthy(summary) /\ attempt.fetch = 1 /\ attempt.summ = 1
    /\ ~Truthy(transcript) =>
          attempt.summ = 0 /\ attempt.tweet = 0 /\ attempt.post = 0
          /\ attempt.blog = 0 /\ attempt.mark = 0
    /\ ~Truthy(summary) =>
          attempt.tweet = 0 /\ attempt.post = 0 /\ attempt.blog = 0 /\ attempt.mark = 0

C4_Witness ==
    /\ pc = "return"
    /\ attempt.fetch = 1 /\ Truthy(transcript)
    /\ attempt.summ = 1 /\ ~Truthy(summary)
    /\ attempt.mark = 0

\* C11: lambda_handler never lets an exception out: whenever a run is over its
\* returned value is the success outcome when main() completed and the error
\* outcome carrying the exception's message when main() raised.
C11_AlwaysReturnsOutcome ==
    /\ outcome \in {None, Success} \cup { Error(e) : e \in {"TypeError", "AttributeError"} }
    /\ (pc = "idle" /\ raised # None) => outcome = Error(raised.v)
    /\ (pc = "idle" /\ raised = None /\ config # None) => outcome = Success

C11_Witness ==
    /\ pc = "idle"
    /\ raised = Raised("AttributeError")
    /\ outcome = Error("AttributeError")

\* C15: a processed record, once written, is never written again: no
\* successful put_item is made for a video id whose item is already in the
\* table, and no item ever leaves the table.
C15_WrittenOnce ==
    [][/\ (pc = "mark" /\ mark_result') => ~db[video_id].present
       /\ \A id \in Ids : db[id].present => db'[id] = db[id]]_vars

ItemSteps == {"summary", "twitter", "blog", "mark", "return"}

\* The first k videos of the list that the start-of-run snapshot does not hold
NewAmong(list, k) ==
    LET IsNew(id) == id \notin processed_videos
    IN  SelectSeq(SubSeq(list.v, 1, k), IsNew)

\* How many videos of the current list the video loop has gone past
Passed == IF pc \in ItemSteps THEN video_idx ELSE video_idx - 1

Range(seq) == { seq[i] : i \in DOMAIN seq }

\* C16: a failed discovery, fetch, summary, post or write stops nothing: when
\* the channel loop stands at channel k discovery has been called for the k-1
\* channels before it, every video the video loop went past that is not in the
\* snapshot had its transcript requested, a run that ends after the loops began
\* has queried every channel and returns the success outcome, and the error
\* outcome is only reached before any channel was queried.
C16_FailuresDoNotAbort ==
    /\ pc = "channel" => Len(queried) = channel_idx - 1
    /\ pc \in {"video", "transcript"} \cup ItemSteps =>
          /\ Range(fetched) = Range(NewAmong(videos, Passed))
          /\ Len(fetched) = Len(NewAmong(videos, Passed))
    /\ (pc = "idle" /\ Len(queried) > 0) =>
          outcome = Success /\ Len(queried) = Len(config.v["channels"].v)
    /\ (pc = "raised" \/ outcome \notin {None, Success}) =>
          queried = <<>> /\ ~failed /\ calls = {}

C16_Witness ==
    /\ pc = "idle" /\ outcome = Success
    /\ failed
    /\ Len(queried) >= 2
    /\ "mark" \in calls

\* C17: discovery is called for the channels in configuration order, the
\* transcripts of one channel are requested in the order discovery returned
\* the videos, and the steps of one video (fetch, summarize, distribute,
\* record) are taken once each in that order and are over before the next
\* video begins.
C17_InOrder ==
    /\ queried = [i \in 1..Len(queried) |-> i]
    /\ pc \in {"video", "transcript"} \cup ItemSteps =>
          /\ queried[Len(queried)] = channel_idx
          /\ fetched = NewAmong(videos, Passed)
    /\ pc \in {"channel", "video", "transcript"} => attempt = NoCalls
    /\ \A kind \in DOMAIN attempt : attempt[kind] <= 1
    /\ pc \in ItemSteps => attempt.fetch = 1 /\ fetched[Len(fetched)] = video_id
    /\ attempt.summ = 1 => pc \in {"twitter", "blog", "mark", "return"}
    /\ (attempt.tweet = 1 \/ attempt.post = 1) =>
          attempt.summ = 1 /\ pc \in {"blog", "mark", "return"}
    /\ attempt.blog = 1 => attempt.summ = 1 /\ pc \in {"mark", "return"}
    /\ attempt.mark = 1 => attempt.summ = 1 /\ pc = "return"

C17_Witness ==
    /\ pc = "video"
    /\ queried = <<1, 2>>
    /\ videos = JList(<<2, 1>>)
    /\ fetched = <<2, 1>>

-----------------------------------------------------------------------------
(* Properties of load_config, checked under SpecConfig *)

NonEmptyString(x) == x.t = "str" /\ x.v # <<>>

IsResolvedConfig(c) ==
    /\ c.t = "dict"
    /\ required_keys \subseteq DOMAIN c.v
    /\ c.v["channels"].t = "list"
    /\ c.v["channels"].v # <<>>
    /\ \A i \in DOMAIN c.v["channels"].v :
          LET ch == c.v["channels"].v[i]
          IN  /\ ch.t = "dict"
              /\ {"channel_id", "name"} \subseteq DOMAIN ch.v
              /\ NonEmptyString(ch.v["channel_id"])
              /\ NonEmptyString(ch.v["name"])
    /\ c.v["global_settings"].t = "dict"
    /\ required_global_settings \subseteq DOMAIN c.v["global_settings"].v

Valid(x) == validate_config(x) = "True"
RemoteLoaded == s3_object \notin S3Failures /\ Truthy(s3_object)
LocalLoaded == config_file \notin FileFailures /\ Truthy(config_file)

\* C5 (as amended): whenever load_config returns, exactly one candidate has
\* been validated: the remote object when it loaded as a non-empty value,
\* otherwise the local file; that candidate is returned when it passes
\* validation and the built-in default otherwise.
C5_OneCandidateValidated ==
    (cfg_pc = "done" /\ ~IsRaised(cfg_result)) =>
        cfg_result =
            IF RemoteLoaded
            THEN (IF Valid(s3_object) THEN s3_object ELSE DefaultConfig)
            ELSE IF LocalLoaded
            THEN (IF Valid(config_file) THEN config_file ELSE DefaultConfig)
            ELSE DefaultConfig

C5_Witness ==
    /\ cfg_pc = "done"
    /\ RemoteLoaded /\ validate_config(s3_object) = "False"
    /\ Valid(config_file)
    /\ cfg_result = DefaultConfig

\* C5 (as stated): a remote object that parses but fails validation gives way
\* to a valid local file, and a valid remote object is returned.
C5_Original ==
    cfg_pc = "done" =>
        /\ (s3_object \in CandidateJson /\ validate_config(s3_object) = "False"
              /\ Valid(config_file) /\ IsResolvedConfig(config_file))
             => cfg_result = config_file
        /\ Valid(s3_object) => cfg_result = s3_object

\* C6: when the remote load fails, a valid local file is returned, and a
\* missing or invalid local file gives the built-in default, which has one
\* source and passes validation.
C6_FallbackOnLoadFailure ==
    (cfg_pc = "done" /\ s3_object \in S3Failures) =>
        /\ cfg_result = IF Valid(config_file) THEN config_file ELSE DefaultConfig
        /\ Len(DefaultConfig.v["channels"].v) = 1
        /\ Valid(DefaultConfig)

\* C7: load_config returns a configuration and never raises, whatever the two
\* stores hold.
C7_NeverRaises ==
    cfg_pc = "done" => ~IsRaised(cfg_result)

\* C8: every configuration load_config returns has a non-empty source list,
\* sources that are mappings with a non-empty identifier and name, and global
\* settings that are a mapping holding the three defaults.
C8_ResolvedConfigInvariant ==
    (cfg_pc = "done" /\ ~IsRaised(cfg_result)) => IsResolvedConfig(cfg_result)

-----------------------------------------------------------------------------
(* Properties of generate_tweet, checked under SpecTweet *)

ClaimedAvailable ==
    tw_args.max_length - (17 + tw_args.id_len) - (3 + tw_args.name_len) - 3

\* C9: a tweet that is returned is body + space + URL + attribution and is no
\* longer than max_length.
C9_FitsBudget ==
    (tw_pc = "done" /\ tw_result # None) =>
        /\ tw_result.v = tw_content + 1 + (17 + tw_args.id_len) + (3 + tw_args.name_len)
        /\ tw_result.v <= tw_args.max_length

C9_Witness ==
    /\ tw_pc = "done" /\ tw_result # None
    /\ tw_response.v > tw_available
    /\ tw_content = tw_available

\* C10: with a key configured, generate_tweet returns None without calling the
\* completion API exactly when the available length is at most 50, and calls
\* it when the available length is 51 or more.
C10_Floor ==
    (tw_pc = "done" /\ OPENAI_API_KEY) =>
        /\ (tw_result = None /\ ~tw_called) <=> ClaimedAvailable <= 50
        /\ ClaimedAvailable >= 51 => tw_called

C10_Witness ==
    /\ tw_pc = "done" /\ OPENAI_API_KEY
    /\ ClaimedAvailable = 50
    /\ tw_result = None /\ ~tw_called

\* C18: the body of a returned tweet is the generated text unchanged when it
\* is no longer than the available length, and otherwise its first
\* available - 3 characters followed by "...", available characters in all;
\* with 247 available, a text of 260 characters gives its first 244 and "...".
C18_HardTruncation ==
    (tw_pc = "done" /\ tw_result # None) =>
        LET text == Characters(tw_response.v)
            a    == ClaimedAvailable
        IN  /\ Len(text) <= a => tw_body = text
            /\ Len(text) > a =>
                  /\ Len(tw_body) = a
                  /\ SubSeq(tw_body, 1, a - 3) = SubSeq(text, 1, a - 3)
                  /\ SubSeq(tw_body, a - 2, a) = Ellipsis
            /\ (a = 247 /\ Len(text) = 260) =>
                  tw_body = Characters(244) \o Ellipsis

C18_Witness ==
    /\ tw_pc = "done" /\ tw_result # None
    /\ ClaimedAvailable = 247
    /\ tw_response = TextLen(260)
    /\ Len(tw_body) = 247 /\ tw_body[244] = 244 /\ tw_body[245] = 0

-----------------------------------------------------------------------------
(* Properties of youtube_service.py, checked under SpecYoutube *)

ClientCreatable == Truthy(YOUTUBE_API_KEY) /\ yt_build = "ok"

\* C12: get_channel_videos returns None when the client cannot be created or
\* the search call raises, and otherwise the list under "items" of the
\* response, the empty list when the response has none; a failure (None) is
\* never an empty list.
C12_FailureIsNotEmpty ==
    (yt_pc = "done" /\ yt_op = "get_channel_videos") =>
        /\ (~ClientCreatable \/ IsRaised(yt_execute)) => yt_result = None
        /\ (ClientCreatable /\ ~IsRaised(yt_execute)) =>
              /\ yt_result.t = "list"
              /\ yt_result.v = IF "items" \in DOMAIN yt_execute.v
                               THEN yt_execute.v["items"].v ELSE <<>>

C12_Witness ==
    /\ yt_pc = "done" /\ yt_op = "get_channel_videos"
    /\ ClientCreatable
    /\ yt_execute.t = "dict" /\ "items" \notin DOMAIN yt_execute.v
    /\ yt_result = JList(<<>>)

\* Number of characters of the first k segments
RECURSIVE LenUpTo(_, _)
LenUpTo(data, k) == IF k = 0 THEN 0 ELSE LenUpTo(data, k - 1) + Len(data[k].text)

\* Where segment i begins in the joined text: after the i-1 segments before it
\* and one separator for each of them
Offset(data, i) == LenUpTo(data, i - 1) + (i - 1) + 1

\* C13: when a transcript was selected and fetched, the text returned holds
\* every segment's text once, in the original order, with exactly one space
\* between consecutive segments and nothing else.
C13_SegmentsJoinedInOrder ==
    (yt_pc = "done" /\ yt_op = "get_video_transcript"
        /\ yt_transcript # None /\ ~IsRaised(yt_listing.v.data)) =>
        LET data == yt_listing.v.data.v
            n    == Len(data)
        IN  /\ yt_result.t = "str"
            /\ Len(yt_result.v) = LenUpTo(data, n) + (IF n = 0 THEN 0 ELSE n - 1)
            /\ \A i \in 1..n :
                  /\ SubSeq(yt_result.v, Offset(data, i),
                            Offset(data, i) + Len(data[i].text) - 1) = data[i].text
                  /\ i < n => yt_result.v[Offset(data, i) + Len(data[i].text)] = " "

C13_Witness ==
    /\ yt_pc = "done" /\ yt_op = "get_video_transcript"
    /\ yt_transcript # None /\ ~IsRaised(yt_listing.v.data)
    /\ yt_listing.v.data.v = <<Entry(<<"a", " ", "b">>), Entry(<<"b">>)>>
    /\ yt_result = JStr(<<"a", " ", "b", " ", "b">>)

\* C14: once get_youtube_client has run, the builder was invoked with the key
\* the environment held when the call was made if there was one, and was not
\* invoked, None being returned, if there was none.
C14_KeyOfTheCallTime ==
    (yt_pc \in {"search", "done"} /\ yt_op = "get_channel_videos") =>
        /\ Truthy(environ) => yt_built = environ
        /\ ~Truthy(environ) => yt_built = None /\ youtube = None

\* C20: when no transcript exists in the preferred language but one exists in
\* another language and its translation and fetch succeed, the translated
\* transcript's text is returned; None is returned only when listing fails,
\* no transcript exists, the translation fails or the fetch fails.
C20_LanguageFallback ==
    (yt_pc = "done" /\ yt_op = "get_video_transcript") =>
        /\ (/\ ~IsRaised(yt_listing)
            /\ "en" \notin yt_listing.v.available
            /\ yt_listing.v.available # {}
            /\ yt_listing.v.translatable
            /\ ~IsRaised(yt_listing.v.data)) =>
               /\ yt_result # None
               /\ yt_transcript # None
               /\ yt_transcript.v.language = "en"
               /\ yt_transcript.v.source \in yt_listing.v.available
        /\ yt_result = None =>
               \/ IsRaised(yt_listing)
               \/ yt_listing.v.available = {}
               \/ ("en" \notin yt_listing.v.available /\ ~yt_listing.v.translatable)
               \/ IsRaised(yt_listing.v.data)

-----------------------------------------------------------------------------
(* Properties of generate_summary, checked under SpecSummary *)

\* Number of characters of the prompt the arguments compose
ComposedLength ==
    TextLength(context(sm_args)) + TextLength(instruction(sm_args)) + sm_args.transcript.v

\* `short` is the first n characters of `long`: the same pieces up to a last
\* one that stops early
IsPrefix(short, long, n) ==
    /\ TextLength(short) = n
    /\ Len(short) <= Len(long)
    /\ \A i \in DOMAIN short :
          /\ short[i].part = long[i].part
          /\ short[i].from = long[i].from
          /\ IF i < Len(short) THEN short[i].to = long[i].to
             ELSE short[i].to <= long[i].to

\* C19: the prompt handed to the completion call is the composed prompt
\* unchanged when it has at most max_prompt_length characters, and otherwise
\* exactly its first max_prompt_length characters followed by the marker.
C19_PromptTruncation ==
    (sm_pc \in {"call", "done"} /\ sm_sent # None) =>
        /\ TextLength(sm_prompt) = ComposedLength
        /\ ComposedLength <= 16000 => sm_sent.v = sm_prompt
        /\ ComposedLength > 16000 =>
              LET k == Len(sm_sent.v)
              IN  /\ k >= 2
                  /\ sm_sent.v[k] = Piece("marker", 1, 40)
                  /\ IsPrefix(SubSeq(sm_sent.v, 1, k - 1), sm_prompt, 16000)

C19_Witness ==
    /\ sm_pc = "done"
    /\ sm_sent # None
    /\ ComposedLength = 16001
    /\ TextLength(sm_sent.v) = 16040
    /\ sm_sent.v[Len(sm_sent.v)].part = "marker"

-----------------------------------------------------------------------------
(* Properties of the record step across runs, checked under Spec *)

FailedWrite == pc = "mark" /\ pc' # "mark" /\ ~mark_result'

Unrecorded(id) == ~db[id].present

\* C22: a store write that fails leaves no record of the item and the run
\* goes on with the video loop; an item without a record that discovery
\* returns is not skipped but taken through process_video again.
C22_FailedWriteLeavesUnrecorded ==
    [][ /\ FailedWrite => (Unrecorded(video_id)' /\ pc' = "return")
        /\ (/\ pc = "video"
            /\ video_idx <= Len(videos.v)
            /\ Unrecorded(video_at(videos, video_idx)))
               => (pc' = "transcript" /\ video_id' = video_at(videos, video_idx))
      ]_vars

BeforeTheRead == {"load_config", "get_processed"}

\* C23: every run reads the processed ids exactly once, after load_config
\* and before the first discovery; processed_videos is not assigned again
\* during the run; and a run ends with as many calls of
\* mark_video_as_processed as summaries generated.
C23_ReadOnceAndMarkPerSummary ==
    [][ /\ pc' = "get_processed" => (reads' = 0 /\ config' # None)
        /\ pc' \notin BeforeTheRead \cup {"idle", "raised"} => reads' = 1
        /\ pc \notin {"idle", "get_processed"} => processed_videos' = processed_videos
        /\ pc' = "idle" => (reads' = 1 /\ marks' = summaries')
      ]_vars

FlagOn(flag) == flag \in DOMAIN channel.v /\ channel.v[flag] = JBool(TRUE)

OncePerFlag(flag) == IF FlagOn(flag) THEN 1 ELSE 0

\* C24: for an item whose summary was generated, post_to_twitter is called
\* once when the channel has post_to_twitter on and not at all when the flag
\* is off or absent, the same for the blog step and post_to_blog, and
\* whatever post_to_twitter returned the blog step and then
\* mark_video_as_processed are reached.
C24_SinksIndependent ==
    /\ pc = "twitter" => attempt.twitter = 0 /\ attempt.blog = 0
    /\ (pc \in {"blog", "mark", "return"} /\ Truthy(summary)) =>
          /\ attempt.twitter = OncePerFlag("post_to_twitter")
          /\ attempt.twitter = 0 =>
                attempt.tweet = 0 /\ attempt.post = 0 /\ twitter_success = "unset"
          /\ attempt.twitter = 1 => twitter_success \in {"True", "False"}
          /\ pc = "blog" => attempt.blog = 0
          /\ pc \in {"mark", "return"} => attempt.blog = OncePerFlag("post_to_blog")
          /\ pc = "return" => attempt.mark = 1

C24_Witness ==
    /\ pc = "return" /\ Truthy(summary)
    /\ FlagOn("post_to_twitter") /\ FlagOn("post_to_blog")
    /\ attempt.twitter = 1 /\ twitter_success = "False"
    /\ attempt.blog = 1
    /\ attempt.mark = 1

-----------------------------------------------------------------------------
(* Properties of get_processed_videos, checked under SpecScan *)

AllPagesAnswered == \A i \in DOMAIN scan_pages : ~IsRaised(scan_pages[i])

\* C21: get_processed_videos returns a set and never raises: the ids of all
\* the pages when the table is usable and every page of the scan is answered,
\* the empty set when the table is unusable or any page fails, never the ids
\* of only some of the pages.
C21_AllPagesOrEmpty ==
    (scan_pc = "done") =>
        /\ scan_result.t = "set"
        /\ scan_result.v =
              IF scan_table /\ AllPagesAnswered
              THEN UNION { scan_pages[i].v : i \in DOMAIN scan_pages }
              ELSE {}

C21_Witness ==
    /\ scan_pc = "done"
    /\ scan_table
    /\ Len(scan_pages) >= 2
    /\ scan_pages[1] = SetOf({1})
    /\ IsRaised(scan_pages[2])
    /\ video_ids = {1}
    /\ scan_result = SetOf({})

====
